---- MODULE Spec2Model ----
(***************************************************************************)
(* The movie ETL of dags/utils/process_movies_data.py: the five table      *)
(* transformations and the driver run_pipeline.                           *)
(*                                                                         *)
(* A table (pandas DataFrame) is a sequence of rows, a row is a record.    *)
(* A nullable cell is Null (NaN, the "\N" token of the sources) or         *)
(* Some(v).  A string is a sequence of one-character strings, so that      *)
(* str.split, string concatenation, the slice names[:-2] and the sorted    *)
(* order of ids are computed, not assumed.  Title ids (tconst) are opaque  *)
(* and only compared for equality: they are numbered 1, 2, ...             *)
(***************************************************************************)
EXTENDS Integers, Sequences, FiniteSets, TLC

(***************************************************************************)
(* Nullable cells.                                                         *)
(***************************************************************************)
Null == <<>>
Some(v) == <<v>>
notna(c) == c # Null
Val(c) == c[1]

(***************************************************************************)
(* Strings.                                                                *)
(***************************************************************************)
Alphabet == <<" ", ",", "1", "2", "7", "8", ";", "A", "B", "C", "D">>
Ord(ch) == CHOOSE i \in 1..Len(Alphabet) : Alphabet[i] = ch

RECURSIVE StrLess(_, _)
StrLess(a, b) ==
    IF b = <<>> THEN FALSE
    ELSE IF a = <<>> THEN TRUE
    ELSE IF Head(a) = Head(b) THEN StrLess(Tail(a), Tail(b))
    ELSE Ord(Head(a)) < Ord(Head(b))

\* x.split(","): the pieces between the commas; "" gives [""].
RECURSIVE Split(_)
Split(s) ==
    IF \A i \in 1..Len(s) : s[i] # ","
    THEN <<s>>
    ELSE LET i == CHOOSE k \in 1..Len(s) :
                      s[k] = "," /\ \A j \in 1..(k - 1) : s[j] # ","
         IN  <<SubSeq(s, 1, i - 1)>> \o Split(SubSeq(s, i + 1, Len(s)))

endswith(s, suffix) ==
    /\ Len(s) >= Len(suffix)
    /\ SubSeq(s, Len(s) - Len(suffix) + 1, Len(s)) = suffix

(***************************************************************************)
(* settings.py                                                             *)
(***************************************************************************)
TITLE_TYPE == "movie"
TITLE_BASICS_YEAR_FROM == 2015
TITLE_BASICS_YEAR_TO == 2020
TITLE_BASICS_USED_COLUMNS == {"tconst", "startYear", "genres", "runtimeMinutes"}
TITLE_CREW_USED_COLUMNS == {"startYear", "genres", "directors", "writers"}

(***************************************************************************)
(* DataFrame operations.                                                   *)
(***************************************************************************)
Range(s) == {s[i] : i \in 1..Len(s)}

\* df[columns]
Project(t, cols) == [i \in 1..Len(t) |-> [c \in cols |-> t[i][c]]]

\* left.merge(right, how="left", on="tconst"): every left row, once per
\* matching right row, or once with NaN in the right columns.
MergeRow(l, right, nanRight) ==
    LET ms == SelectSeq(right, LAMBDA r : r.tconst = l.tconst)
    IN  IF ms = <<>> THEN <<l @@ nanRight>>
        ELSE [i \in 1..Len(ms) |-> l @@ ms[i]]

RECURSIVE MergeLeft(_, _, _)
MergeLeft(left, right, nanRight) ==
    IF left = <<>> THEN <<>>
    ELSE MergeRow(Head(left), right, nanRight)
             \o MergeLeft(Tail(left), right, nanRight)

\* df[col] = df[col].apply(lambda x: x.split(","))  (col has no NaN)
SplitColumn(t, col) ==
    [i \in 1..Len(t) |-> [t[i] EXCEPT ![col] = Split(Val(t[i][col]))]]

\* Fault: explode keeping only the first element of each list.
ExplodeRow_first(r, col) ==
    IF r[col] = <<>> THEN <<[r EXCEPT ![col] = Null]>>
    ELSE <<[r EXCEPT ![col] = Some(r[col][1])]>>

\* df.explode(col): one row per element of the list in col, the other
\* cells repeated; an empty list gives one row with NaN.
ExplodeRow(r, col) ==
    IF r[col] = <<>> THEN <<[r EXCEPT ![col] = Null]>>
    ELSE [i \in 1..Len(r[col]) |-> [r EXCEPT ![col] = Some(r[col][i])]]

RECURSIVE Explode(_, _)
Explode(t, col) ==
    IF t = <<>> THEN <<>>
    ELSE ExplodeRow(Head(t), col) \o Explode(Tail(t), col)

\* groupby(RESUME_GROUPED_BY): the keys of the rows whose key cells are
\* both present (dropna), in sorted order (sort=True).
RESUME_GROUPED_BY(r) == <<r.startYear, r.genres>>
HasKey(r) == notna(r.startYear) /\ notna(r.genres)
GroupKeys(t) == {RESUME_GROUPED_BY(r) : r \in {x \in Range(t) : HasKey(x)}}
KeyLess(k1, k2) ==
    \/ Val(k1[1]) < Val(k2[1])
    \/ Val(k1[1]) = Val(k2[1]) /\ StrLess(Val(k1[2]), Val(k2[2]))

RECURSIVE SortedKeys(_)
SortedKeys(S) ==
    IF S = {} THEN <<>>
    ELSE LET m == CHOOSE k \in S : \A j \in S \ {k} : KeyLess(k, j)
         IN  <<m>> \o SortedKeys(S \ {m})

\* The cells of column col in the group of key k, in row order, NaN skipped.
GroupValues(t, k, col) ==
    LET rows == SelectSeq(t, LAMBDA r : HasKey(r) /\ RESUME_GROUPED_BY(r) = k
                                          /\ notna(r[col]))
    IN  [i \in 1..Len(rows) |-> Val(rows[i][col])]

RECURSIVE SeqSum(_)
SeqSum(s) == IF s = <<>> THEN 0 ELSE Head(s) + SeqSum(Tail(s))

\* Fault: a mean that is 0 for a group with no value.
AggMean_zero(vs) ==
    IF vs = <<>> THEN Some([sum |-> 0, n |-> 1])
    ELSE Some([sum |-> SeqSum(vs), n |-> Len(vs)])

\* "mean": NaN for a group with no value, else the exact quotient sum/n,
\* kept as the pair of its numerator and denominator.
AggMean(vs) ==
    IF vs = <<>> THEN Null ELSE Some([sum |-> SeqSum(vs), n |-> Len(vs)])

\* "sum": the sum of the values present, 0 when there is none (min_count=0).
AggSum(vs) == Some(SeqSum(vs))

\* Fault: "count" in place of "nunique".
AggNunique_count(vs) == Len(vs)

\* "nunique": the number of distinct values present.
AggNunique(vs) == Cardinality(Range(vs))

\* Series.mode(): the values of maximal count, sorted.
Occurrences(vs, v) == Cardinality({i \in 1..Len(vs) : vs[i] = v})

RECURSIVE SortedStrs(_)
SortedStrs(S) ==
    IF S = {} THEN <<>>
    ELSE LET m == CHOOSE a \in S : \A b \in S \ {a} : StrLess(a, b)
         IN  <<m>> \o SortedStrs(S \ {m})

\* Fault: every value of the group in place of the most frequent ones.
mode_all(vs) == SortedStrs(Range(vs))

mode(vs) ==
    SortedStrs({v \in Range(vs) :
                  \A w \in Range(vs) : Occurrences(vs, w) <= Occurrences(vs, v)})

\* The cell agg() stores for lambda x: x.mode(): the value itself when the
\* mode is single, a numpy.ndarray of the modes otherwise.
ModeCell(vs) ==
    LET m == mode(vs)
    IN  IF Len(m) = 1 THEN [type |-> "str", ids |-> m]
        ELSE [type |-> "numpy.ndarray", ids |-> m]

(***************************************************************************)
(* process_title_basics_df                                                 *)
(***************************************************************************)
\* Fault: a range without its bounds.
between_exclusive(y, lo, hi) == lo < y /\ y < hi

between(y, lo, hi) == lo <= y /\ y <= hi

process_title_basics_df(title_basics_df) ==
    LET df == SelectSeq(title_basics_df, LAMBDA r : notna(r.startYear))
        movie_mask(r) == r.titleType = TITLE_TYPE
        date_mask(r) == between(Val(r.startYear), TITLE_BASICS_YEAR_FROM,
                                TITLE_BASICS_YEAR_TO)
    IN  Project(SelectSeq(df, LAMBDA r : movie_mask(r) /\ date_mask(r)),
                TITLE_BASICS_USED_COLUMNS)

(***************************************************************************)
(* get_title_ratings                                                       *)
(***************************************************************************)
NanRatings == [averageRating |-> Null, numVotes |-> Null]

get_title_ratings(clean_title_basics_df, title_ratings_df) ==
    LET merged == MergeLeft(clean_title_basics_df, title_ratings_df, NanRatings)
        titles_data == SelectSeq(merged, LAMBDA r : notna(r.genres))
    IN  Explode(SplitColumn(titles_data, "genres"), "genres")

(***************************************************************************)
(* get_year_genre_resume                                                   *)
(***************************************************************************)
ResumeRow(df, k) ==
    [startYear      |-> k[1],
     genres         |-> k[2],
     runtimeMinutes |-> AggMean(GroupValues(df, k, "runtimeMinutes")),
     averageRating  |-> AggMean(GroupValues(df, k, "averageRating")),
     numVotes       |-> AggSum(GroupValues(df, k, "numVotes"))]

\* Fault: one output row per input row (transform in place of agg).
get_year_genre_resume_perRow(titles_data_df) ==
    LET rows == SelectSeq(titles_data_df, HasKey)
    IN  [i \in 1..Len(rows) |->
            ResumeRow(titles_data_df, RESUME_GROUPED_BY(rows[i]))]

get_year_genre_resume(titles_data_df) ==
    LET keys == SortedKeys(GroupKeys(titles_data_df))
    IN  [i \in 1..Len(keys) |-> ResumeRow(titles_data_df, keys[i])]

(***************************************************************************)
(* get_id2name_dict: set_index("nconst").to_dict()["primaryName"]; of two  *)
(* rows with one nconst the later one is kept.                             *)
(***************************************************************************)
get_id2name_dict(name_basics_df) ==
    [id \in {r.nconst : r \in Range(name_basics_df)} |->
        LET last == CHOOSE i \in 1..Len(name_basics_df) :
                        /\ name_basics_df[i].nconst = id
                        /\ \A j \in (i + 1)..Len(name_basics_df) :
                               name_basics_df[j].nconst # id
        IN  name_basics_df[last].primaryName]

(***************************************************************************)
(* director_id2name                                                        *)
(***************************************************************************)
Separator == <<";", " ">>

\* id2name_dict[id] raises KeyError for an id that is no key.
RaisesKeyError(cell, id2name_dict) ==
    \E i \in 1..Len(cell.ids) : cell.ids[i] \notin DOMAIN id2name_dict

RECURSIVE AppendNames(_, _, _)
AppendNames(names, ids, id2name_dict) ==
    IF ids = <<>> THEN names
    ELSE AppendNames(names \o id2name_dict[Head(ids)] \o Separator,
                     Tail(ids), id2name_dict)

\* Fault: the separator after the last name is kept.
director_id2name_trailing(cell, id2name_dict) ==
    IF cell.type = "numpy.ndarray"
    THEN AppendNames(<<>>, cell.ids, id2name_dict)
    ELSE id2name_dict[cell.ids[1]]

director_id2name(cell, id2name_dict) ==
    IF cell.type = "numpy.ndarray"
    THEN LET names == AppendNames(<<>>, cell.ids, id2name_dict)
         IN  IF endswith(names, Separator)
             THEN SubSeq(names, 1, Len(names) - 2)
             ELSE names
    ELSE id2name_dict[cell.ids[1]]

(***************************************************************************)
(* get_crew_data_by_group                                                  *)
(***************************************************************************)
NanCrew == [directors |-> Null, writers |-> Null]

\* The local df after the two explode calls (line 151).
CrewExploded(clean_title_basics_df, title_crew_df) ==
    LET merged == MergeLeft(clean_title_basics_df, title_crew_df, NanCrew)
        df1 == SelectSeq(merged, LAMBDA r : notna(r.genres))
        df2 == SelectSeq(df1, LAMBDA r : notna(r.directors))
        df3 == Project(df2, TITLE_CREW_USED_COLUMNS)
        df4 == SplitColumn(SplitColumn(df3, "genres"), "directors")
    IN  Explode(Explode(df4, "genres"), "directors")

GroupRow(k, cell) == [startYear |-> k[1], genres |-> k[2], value |-> cell]

NDirectors(df) ==
    LET keys == SortedKeys(GroupKeys(df))
    IN  [i \in 1..Len(keys) |->
            GroupRow(keys[i], AggNunique(GroupValues(df, keys[i], "directors")))]

TopDirectorIds(df) ==
    LET keys == SortedKeys(GroupKeys(df))
    IN  [i \in 1..Len(keys) |->
            GroupRow(keys[i], ModeCell(GroupValues(df, keys[i], "directors")))]

NWriters(df) ==
    LET keys == SortedKeys(GroupKeys(df))
    IN  [i \in 1..Len(keys) |->
            GroupRow(keys[i], AggNunique(GroupValues(df, keys[i], "writers")))]

\* top_directors["directors"].apply(lambda x: director_id2name(x, dict))
TopDirectorsRaises(df, id2name_dict) ==
    \E i \in 1..Len(TopDirectorIds(df)) :
        RaisesKeyError(TopDirectorIds(df)[i].value, id2name_dict)

TopDirectors(df, id2name_dict) ==
    LET top == TopDirectorIds(df)
    IN  [i \in 1..Len(top) |->
            [top[i] EXCEPT !.value = director_id2name(top[i].value, id2name_dict)]]

(***************************************************************************)
(* run_pipeline, lines 215-246: the three left merges on the group index,  *)
(* the renaming, the rounding and the casts.                               *)
(***************************************************************************)
SameKey(a, b) == a.startYear = b.startYear /\ a.genres = b.genres

\* left.merge(right, how="left", left_index=True, right_index=True); the
\* value column of right arrives under the name col.
MergeIndexRow(l, right, col) ==
    LET ms == SelectSeq(right, LAMBDA r : SameKey(l, r))
    IN  IF ms = <<>> THEN <<(col :> Null) @@ l>>
        ELSE [i \in 1..Len(ms) |-> (col :> Some(ms[i].value)) @@ l]

RECURSIVE MergeIndex(_, _, _)
MergeIndex(left, right, col) ==
    IF left = <<>> THEN <<>>
    ELSE MergeIndexRow(Head(left), right, col)
             \o MergeIndex(Tail(left), right, col)

\* round(x, 2) of the quotient sum/n, in hundredths; NaN stays NaN.
\* A quotient exactly halfway between two hundredths goes to the even one.
Round2(c) ==
    IF c = Null THEN Null
    ELSE LET num == 100 * Val(c).sum
             q   == num \div Val(c).n
             rem == num % Val(c).n
         IN  Some(IF 2 * rem < Val(c).n THEN q
                  ELSE IF 2 * rem > Val(c).n THEN q + 1
                  ELSE IF q % 2 = 0 THEN q ELSE q + 1)

\* Fault: no fillna before the cast.
fillna_none(c) == c

\* Series.fillna(0)
fillna0(c) == IF c = Null THEN Some(0) ELSE c

\* Series.astype(int) raises ValueError when a cell is NaN.
AstypeIntRaises(t, col) == \E i \in 1..Len(t) : t[i][col] = Null

\* Fault: numWriters taken from the merged writers count.
NumWritersCell_writers(r) == r.numWriters

\* output["numWriters"] = ... (line 246)
NumWritersCell(r) == r.numVotes

MergedOutput(resume, nw, nd, td) ==
    MergeIndex(MergeIndex(MergeIndex(resume, nw, "numWriters"),
                          nd, "numDirectors"),
               td, "topDirectors")

FormatRow(r) ==
    [startYear      |-> r.startYear,
     genres         |-> r.genres,
     runtimeMinutes |-> Round2(r.runtimeMinutes),
     averageRating  |-> Round2(r.averageRating),
     numVotes       |-> r.numVotes,
     numWriters     |-> NumWritersCell(r),
     numDirectors   |-> fillna0(r.numDirectors),
     topDirectors   |-> r.topDirectors]

FormatOutput(merged) == [i \in 1..Len(merged) |-> FormatRow(merged[i])]

(***************************************************************************)
(* The contents the four sources can have.                                 *)
(***************************************************************************)
MaxTitles == 2
MaxNames == 2

\* Tables of n rows with tconst 1..n and the other cells from Payload.
TablesOf(n, Payload) ==
    {[i \in 1..n |-> [tconst |-> i] @@ f[i]] : f \in [1..n -> Payload]}

\* The same with any of the rows missing.
SubTablesOf(n, Payload) ==
    UNION {{LET idx == SelectSeq([i \in 1..n |-> i], LAMBDA i : i \in S)
            IN  [j \in 1..Len(idx) |-> [tconst |-> idx[j]] @@ f[idx[j]]] :
               f \in [S -> Payload]} : S \in SUBSET (1..n)}

SeqsUpTo(n, S) == UNION {[1..k -> S] : k \in 0..n}

NameRows ==
    {[nconst |-> <<"1">>, primaryName |-> <<"A">>],
     [nconst |-> <<"2">>, primaryName |-> <<"B">>]}
NameTables == SeqsUpTo(MaxNames, NameRows)

TitleBasicsRows ==
    [titleType : {"movie", "short"}, startYear : {Some(2015)},
     genres : {Null, Some(<<"D">>), Some(<<"D", ",", "C">>)},
     runtimeMinutes : {Some(90)}]
TitleBasicsTables == TablesOf(MaxTitles, TitleBasicsRows)

TitleRatingsRows ==
    [averageRating : {Some(7)}, numVotes : {Some(10)}]
TitleRatingsTables == SubTablesOf(MaxTitles, TitleRatingsRows)

TitleCrewRows ==
    [directors : {Null, Some(<<"1">>), Some(<<"2">>), Some(<<"1", ",", "2">>)},
     writers : {Some(<<"7">>)}]
TitleCrewTables == SubTablesOf(MaxTitles, TitleCrewRows)

(***************************************************************************)
(* run_pipeline as a state machine.  pc is the position in the function,   *)
(* live the set of local names that are bound (del removes one), steps     *)
(* the stages executed so far, sink the rows of the file at                *)
(* OUTPUT_FILE_PATH and writes the number of times it was written.  df     *)
(* keeps the exploded local frame of the last get_crew_data_by_group call. *)
(***************************************************************************)
VARIABLES pc, live, steps, name_basics_df, director_id2name_dict,
          title_basics_df, clean_title_basics, title_ratings_df,
          clean_title_ratings, year_genre_resume, title_crew_df, df,
          n_directors, top_directors, n_writers, output, sink, writes

vars == <<pc, live, steps, name_basics_df, director_id2name_dict,
          title_basics_df, clean_title_basics, title_ratings_df,
          clean_title_ratings, year_genre_resume, title_crew_df, df,
          n_directors, top_directors, n_writers, output, sink, writes>>

namesVars == <<name_basics_df, director_id2name_dict>>
basicsVars == <<title_basics_df, clean_title_basics>>
ratingsVars == <<title_ratings_df, clean_title_ratings, year_genre_resume>>
crewVars == <<title_crew_df, df, n_directors, top_directors, n_writers>>
sinkVars == <<output, sink, writes>>

Bind(l, name) == l \cup {name}
\* Fault: a del that releases nothing.
Release_none(l, name) == l

\* del name
Release(l, name) == l \ {name}

Init ==
    /\ pc = "start"
    /\ live = {}
    /\ steps = <<>>
    /\ name_basics_df = <<>>
    /\ director_id2name_dict = <<>>
    /\ title_basics_df = <<>>
    /\ clean_title_basics = <<>>
    /\ title_ratings_df = <<>>
    /\ clean_title_ratings = <<>>
    /\ year_genre_resume = <<>>
    /\ title_crew_df = <<>>
    /\ df = <<>>
    /\ n_directors = <<>>
    /\ top_directors = <<>>
    /\ n_writers = <<>>
    /\ output = <<>>
    /\ sink = <<>>
    /\ writes = 0

Step(from, to, stage) ==
    /\ pc = from
    /\ pc' = to
    /\ steps' = IF stage = "" THEN steps ELSE Append(steps, stage)

\* line 178
LoadNameBasics ==
    /\ Step("start", "names_loaded", "load names")
    /\ name_basics_df' \in NameTables
    /\ live' = Bind(live, "name_basics_df")
    /\ UNCHANGED <<director_id2name_dict, basicsVars, ratingsVars, crewVars,
                   sinkVars>>

\* line 182
BuildLookup ==
    /\ Step("names_loaded", "lookup_built", "build lookup")
    /\ director_id2name_dict' = get_id2name_dict(name_basics_df)
    /\ live' = Bind(live, "director_id2name_dict")
    /\ UNCHANGED <<name_basics_df, basicsVars, ratingsVars, crewVars, sinkVars>>

\* line 183
DelNameBasics ==
    /\ Step("lookup_built", "names_released", "")
    /\ name_basics_df' = <<>>
    /\ live' = Release(live, "name_basics_df")
    /\ UNCHANGED <<director_id2name_dict, basicsVars, ratingsVars, crewVars,
                   sinkVars>>

\* line 187
LoadTitleBasics ==
    /\ Step("names_released", "basics_loaded", "load title-basics")
    /\ title_basics_df' \in TitleBasicsTables
    /\ live' = Bind(live, "title_basics_df")
    /\ UNCHANGED <<namesVars, clean_title_basics, ratingsVars, crewVars,
                   sinkVars>>

\* line 189
CleanTitleBasics ==
    /\ Step("basics_loaded", "basics_clean", "clean")
    /\ clean_title_basics' = process_title_basics_df(title_basics_df)
    /\ live' = Bind(live, "clean_title_basics")
    /\ UNCHANGED <<namesVars, title_basics_df, ratingsVars, crewVars, sinkVars>>

\* line 190
DelTitleBasics ==
    /\ Step("basics_clean", "basics_released", "")
    /\ title_basics_df' = <<>>
    /\ live' = Release(live, "title_basics_df")
    /\ UNCHANGED <<namesVars, clean_title_basics, ratingsVars, crewVars,
                   sinkVars>>

\* lines 194-196
LoadTitleRatings ==
    /\ Step("basics_released", "ratings_loaded", "load ratings")
    /\ title_ratings_df' \in TitleRatingsTables
    /\ live' = Bind(live, "title_ratings_df")
    /\ UNCHANGED <<namesVars, basicsVars, clean_title_ratings,
                   year_genre_resume, crewVars, sinkVars>>

\* line 198
JoinTitleRatings ==
    /\ Step("ratings_loaded", "ratings_joined", "join")
    /\ clean_title_ratings' =
           get_title_ratings(clean_title_basics, title_ratings_df)
    /\ live' = Bind(live, "clean_title_ratings")
    /\ UNCHANGED <<namesVars, basicsVars, title_ratings_df, year_genre_resume,
                   crewVars, sinkVars>>

\* line 199
DelTitleRatings ==
    /\ Step("ratings_joined", "ratings_released", "")
    /\ title_ratings_df' = <<>>
    /\ live' = Release(live, "title_ratings_df")
    /\ UNCHANGED <<namesVars, basicsVars, clean_title_ratings,
                   year_genre_resume, crewVars, sinkVars>>

\* line 203
ComputeResume ==
    /\ Step("ratings_released", "resume_done", "aggregate")
    /\ year_genre_resume' = get_year_genre_resume(clean_title_ratings)
    /\ live' = Bind(live, "year_genre_resume")
    /\ UNCHANGED <<namesVars, basicsVars, title_ratings_df,
                   clean_title_ratings, crewVars, sinkVars>>

\* line 204
DelCleanTitleRatings ==
    /\ Step("resume_done", "joined_released", "")
    /\ clean_title_ratings' = <<>>
    /\ live' = Release(live, "clean_title_ratings")
    /\ UNCHANGED <<namesVars, basicsVars, title_ratings_df, year_genre_resume,
                   crewVars, sinkVars>>

\* line 208
LoadTitleCrew ==
    /\ Step("joined_released", "crew_loaded", "load crew")
    /\ title_crew_df' \in TitleCrewTables
    /\ live' = Bind(live, "title_crew_df")
    /\ UNCHANGED <<namesVars, basicsVars, ratingsVars, df, n_directors,
                   top_directors, n_writers, sinkVars>>

\* lines 210-212: the call returns the three tables, or the KeyError of
\* director_id2name leaves run_pipeline, which handles no exception.
CrewAggregation ==
    /\ pc = "crew_loaded"
    /\ df' = CrewExploded(clean_title_basics, title_crew_df)
    /\ IF TopDirectorsRaises(df', director_id2name_dict)
       THEN /\ pc' = "raised KeyError"
            /\ steps' = steps
            /\ UNCHANGED <<live, n_directors, top_directors, n_writers>>
       ELSE /\ pc' = "crew_done"
            /\ steps' = Append(steps, "crew aggregation")
            /\ n_directors' = NDirectors(df')
            /\ top_directors' = TopDirectors(df', director_id2name_dict)
            /\ n_writers' = NWriters(df')
            /\ live' = (live \cup {"n_directors", "top_directors", "n_writers"})
    /\ UNCHANGED <<namesVars, basicsVars, ratingsVars, title_crew_df, sinkVars>>

\* line 213
DelTitleCrew ==
    /\ Step("crew_done", "crew_released", "")
    /\ title_crew_df' = <<>>
    /\ live' = Release(live, "title_crew_df")
    /\ UNCHANGED <<namesVars, basicsVars, ratingsVars, df, n_directors,
                   top_directors, n_writers, sinkVars>>

\* lines 217-246
CreateOutput ==
    /\ pc = "crew_released"
    /\ LET merged == MergedOutput(year_genre_resume, n_writers, n_directors,
                                  top_directors)
       IN  IF AstypeIntRaises(merged, "numVotes")
           THEN /\ pc' = "raised ValueError"
                /\ UNCHANGED <<steps, live, output>>
           ELSE /\ pc' = "output_ready"
                /\ steps' = Append(steps, "merge")
                /\ output' = FormatOutput(merged)
                /\ live' = Bind(live, "output")
    /\ UNCHANGED <<namesVars, basicsVars, ratingsVars, crewVars, sink, writes>>

\* line 250
DumpOutput ==
    /\ Step("output_ready", "done", "write")
    /\ sink' = output
    /\ writes' = writes + 1
    /\ UNCHANGED <<live, namesVars, basicsVars, ratingsVars, crewVars, output>>

Next ==
    \/ LoadNameBasics
    \/ BuildLookup
    \/ DelNameBasics
    \/ LoadTitleBasics
    \/ CleanTitleBasics
    \/ DelTitleBasics
    \/ LoadTitleRatings
    \/ JoinTitleRatings
    \/ DelTitleRatings
    \/ ComputeResume
    \/ DelCleanTitleRatings
    \/ LoadTitleCrew
    \/ CrewAggregation
    \/ DelTitleCrew
    \/ CreateOutput
    \/ DumpOutput

Spec == Init /\ [][Next]_vars

(***************************************************************************)
(* process_title_basics_df on its own: run_pipeline at line 189 with the   *)
(* title-basics source holding any of a wider range of rows.               *)
(***************************************************************************)
BothNames ==
    <<[nconst |-> <<"1">>, primaryName |-> <<"A">>],
      [nconst |-> <<"2">>, primaryName |-> <<"B">>]>>

CleanInputRows ==
    [titleType : {"movie", "short"},
     startYear : {Null, Some(2014), Some(2015), Some(2017), Some(2020),
                  Some(2021)},
     genres : {Null, Some(<<"D">>)},
     runtimeMinutes : {Null, Some(90)}]

InitClean ==
    /\ pc = "basics_loaded"
    /\ live = {"director_id2name_dict", "title_basics_df"}
    /\ steps = <<"load names", "build lookup", "load title-basics">>
    /\ director_id2name_dict = get_id2name_dict(BothNames)
    /\ name_basics_df = <<>>
    /\ title_basics_df \in TablesOf(MaxTitles, CleanInputRows)
    /\ clean_title_basics = <<>>
    /\ title_ratings_df = <<>>
    /\ clean_title_ratings = <<>>
    /\ year_genre_resume = <<>>
    /\ title_crew_df = <<>>
    /\ df = <<>>
    /\ n_directors = <<>>
    /\ top_directors = <<>>
    /\ n_writers = <<>>
    /\ output = <<>>
    /\ sink = <<>>
    /\ writes = 0

NextClean == CleanTitleBasics \/ DelTitleBasics

SpecClean == InitClean /\ [][NextClean]_vars

(***************************************************************************)
(* get_title_ratings and get_year_genre_resume on their own: run_pipeline  *)
(* at line 198.                                                            *)
(***************************************************************************)
ResumeBasicsRows ==
    [titleType : {"movie"}, startYear : {Some(2015), Some(2020)},
     genres : {Null, Some(<<"D">>), Some(<<"D", ",", "C">>)},
     runtimeMinutes : {Null, Some(90), Some(101)}]

ResumeRatingsRows ==
    {[averageRating |-> Some(7), numVotes |-> Some(10)],
     [averageRating |-> Some(8), numVotes |-> Some(5)]}

Untouched ==
    /\ name_basics_df = <<>>
    /\ title_basics_df = <<>>
    /\ clean_title_ratings = <<>>
    /\ year_genre_resume = <<>>
    /\ df = <<>>
    /\ n_directors = <<>>
    /\ top_directors = <<>>
    /\ n_writers = <<>>
    /\ output = <<>>
    /\ sink = <<>>
    /\ writes = 0

InitResume ==
    /\ pc = "ratings_loaded"
    /\ live = {"director_id2name_dict", "clean_title_basics",
               "title_ratings_df"}
    /\ steps = <<"load names", "build lookup", "load title-basics", "clean",
                 "load ratings">>
    /\ director_id2name_dict = get_id2name_dict(BothNames)
    /\ \E raw \in TablesOf(MaxTitles, ResumeBasicsRows) :
           clean_title_basics = process_title_basics_df(raw)
    /\ title_ratings_df \in SubTablesOf(MaxTitles, ResumeRatingsRows)
    /\ title_crew_df = <<>>
    /\ Untouched

NextResume == JoinTitleRatings \/ DelTitleRatings \/ ComputeResume

SpecResume == InitResume /\ [][NextResume]_vars

(***************************************************************************)
(* get_crew_data_by_group on its own: run_pipeline at line 210.            *)
(***************************************************************************)
CrewBasicsRows ==
    [titleType : {"movie"}, startYear : {Some(2015), Some(2020)},
     genres : {Null, Some(<<"D">>), Some(<<"D", ",", "C">>)},
     runtimeMinutes : {Some(90)}]

CrewInputRows ==
    [directors : {Null, Some(<<"1">>), Some(<<"1", ",", "2">>),
                  Some(<<"2", ",", "1">>)},
     writers : {Null, Some(<<"7", ",", "8">>)}]

CrewNameTables == {BothNames, SubSeq(BothNames, 1, 1)}

InitCrew ==
    /\ pc = "crew_loaded"
    /\ live = {"director_id2name_dict", "clean_title_basics",
               "year_genre_resume", "title_crew_df"}
    /\ steps = <<"load names", "build lookup", "load title-basics", "clean",
                 "load ratings", "join", "aggregate", "load crew">>
    /\ \E names \in CrewNameTables :
           director_id2name_dict = get_id2name_dict(names)
    /\ \E raw \in TablesOf(MaxTitles, CrewBasicsRows) :
           /\ clean_title_basics = process_title_basics_df(raw)
           /\ year_genre_resume =
                  get_year_genre_resume(
                      get_title_ratings(clean_title_basics, <<>>))
    /\ title_ratings_df = <<>>
    /\ title_crew_df \in SubTablesOf(MaxTitles, CrewInputRows)
    /\ name_basics_df = <<>>
    /\ title_basics_df = <<>>
    /\ clean_title_ratings = <<>>
    /\ df = <<>>
    /\ n_directors = <<>>
    /\ top_directors = <<>>
    /\ n_writers = <<>>
    /\ output = <<>>
    /\ sink = <<>>
    /\ writes = 0

NextCrew == CrewAggregation \/ DelTitleCrew

SpecCrew == InitCrew /\ [][NextCrew]_vars

(***************************************************************************)
(* Properties.                                                             *)
(***************************************************************************)
Ids(t) == {r.tconst : r \in Range(t)}
RowOf(t, id) == CHOOSE r \in Range(t) : r.tconst = id
Commas(s) == Cardinality({i \in 1..Len(s) : s[i] = ","})
Pieces(s) == Commas(s) + 1

\* C1: process_title_basics_df returns exactly the input rows with a
\* non-null startYear, titleType "movie" and 2015 <= startYear <= 2020:
\* none of them is dropped, no other row is returned, and the four used
\* cells of a returned row are those of the input row.
Retained(r) ==
    /\ r.startYear # Null
    /\ r.titleType = "movie"
    /\ 2015 <= Val(r.startYear)
    /\ Val(r.startYear) <= 2020

C1_CleanKeepsExactlyMoviesInRange ==
    pc = "basics_clean" =>
        /\ \A r \in Range(title_basics_df) :
               Retained(r) <=> r.tconst \in Ids(clean_title_basics)
        /\ Len(clean_title_basics)
               = Cardinality({r \in Range(title_basics_df) : Retained(r)})
        /\ \A c \in Range(clean_title_basics) :
               LET r == RowOf(title_basics_df, c.tconst)
               IN  c = [tconst |-> r.tconst, startYear |-> r.startYear,
                        genres |-> r.genres,
                        runtimeMinutes |-> r.runtimeMinutes]

C1_Witness ==
    /\ pc = "basics_clean"
    /\ \E r \in Range(title_basics_df) :
           /\ r.titleType = "movie"
           /\ r.startYear \in {Some(2015), Some(2020)}
           /\ r.tconst \in Ids(clean_title_basics)
    /\ \E r \in Range(title_basics_df) :
           /\ r.titleType = "movie"
           /\ r.startYear \in {Null, Some(2014), Some(2021)}
           /\ r.tconst \notin Ids(clean_title_basics)

\* C2: get_year_genre_resume returns one row for each (startYear, genres)
\* pair of its input and no other row: every pair of the input is the key
\* of exactly one output row, and every output key is a pair of the input.
KeyOf(r) == <<r.startYear, r.genres>>

C2_OneRowPerGroup ==
    pc = "resume_done" =>
        /\ \A r \in Range(clean_title_ratings) :
               Cardinality({i \in 1..Len(year_genre_resume) :
                               KeyOf(year_genre_resume[i]) = KeyOf(r)}) = 1
        /\ \A g \in Range(year_genre_resume) :
               \E r \in Range(clean_title_ratings) : KeyOf(r) = KeyOf(g)

C2_Witness ==
    /\ pc = "resume_done"
    /\ Len(year_genre_resume) >= 2
    /\ Len(clean_title_ratings) > Len(year_genre_resume)

\* C4 as stated: in the output of get_year_genre_resume each of
\* runtimeMinutes, averageRating and numVotes is null for a group whose
\* rows all have a null value for it.
AllNull(t, g, col) == \A r \in Range(t) : KeyOf(r) = KeyOf(g) => r[col] = Null

C4_AllNullMeasureIsNull ==
    pc = "resume_done" =>
        \A g \in Range(year_genre_resume) :
            \A col \in {"runtimeMinutes", "averageRating", "numVotes"} :
                AllNull(clean_title_ratings, g, col) => g[col] = Null

\* C4 amended: the two means are null for a group whose rows all have a
\* null value for the measure; numVotes, a sum, is 0 for such a group
\* (and never null).
C4_AllNullMeanIsNullSumIsZero ==
    pc = "resume_done" =>
        \A g \in Range(year_genre_resume) :
            /\ \A col \in {"runtimeMinutes", "averageRating"} :
                   AllNull(clean_title_ratings, g, col) => g[col] = Null
            /\ AllNull(clean_title_ratings, g, "numVotes")
                   => g.numVotes = Some(0)
            /\ g.numVotes # Null

C4_Witness ==
    /\ pc = "resume_done"
    /\ \E g \in Range(year_genre_resume) :
           /\ AllNull(clean_title_ratings, g, "numVotes")
           /\ AllNull(clean_title_ratings, g, "averageRating")
           /\ AllNull(clean_title_ratings, g, "runtimeMinutes")

\* The clean titles joined with their crew row that get_crew_data_by_group
\* keeps: genres and directors both present.
CrewTitles ==
    {<<t, c>> \in Range(clean_title_basics) \X Range(title_crew_df) :
        t.tconst = c.tconst /\ t.genres # Null /\ c.directors # Null}

\* The director ids of the rows of group k of an exploded frame, and those
\* of them with the largest number of rows.
DirectorsIn(t, k) ==
    {Val(r.directors) : r \in {x \in Range(t) : KeyOf(x) = k}}
RowsWith(t, k, d) ==
    Cardinality({i \in 1..Len(t) :
                    KeyOf(t[i]) = k /\ t[i].directors = Some(d)})
MostFrequent(t, k) ==
    {d \in DirectorsIn(t, k) :
        \A e \in DirectorsIn(t, k) : RowsWith(t, k, e) <= RowsWith(t, k, d)}

RECURSIVE JoinNames(_, _)
JoinNames(ids, dict) ==
    IF ids = <<>> THEN <<>>
    ELSE IF Len(ids) = 1 THEN dict[ids[1]]
    ELSE dict[ids[1]] \o <<";", " ">> \o JoinNames(Tail(ids), dict)

Ascending(ids) ==
    \A i \in 1..(Len(ids) - 1) : StrLess(ids[i], ids[i + 1])

\* C6: for every group of the exploded crew frame, topDirectors is the
\* names of exactly the director ids with the largest number of rows in
\* the group, in ascending id order (the order Series.mode returns), joined
\* by "; " with no separator after the last name; a single such id gives
\* its name alone.
C6_TopDirectorsNamesTheModes ==
    pc = "crew_done" =>
        /\ {KeyOf(g) : g \in Range(top_directors)}
               = {KeyOf(r) : r \in Range(df)}
        /\ \A g \in Range(top_directors) :
               LET best == MostFrequent(df, KeyOf(g))
                   ids  == CHOOSE q \in [1..Cardinality(best) -> best] :
                               Range(q) = best /\ Ascending(q)
               IN  g.value = JoinNames(ids, director_id2name_dict)

C6_Witness ==
    /\ pc = "crew_done"
    /\ \E r \in Range(title_crew_df) : r.directors = Some(<<"2", ",", "1">>)
    /\ \E g \in Range(top_directors) : g.value = <<"A", ";", " ", "B">>
    /\ \E g \in Range(top_directors) : g.value = <<"A">>

\* C7: for every group of n_directors, numDirectors is the number of
\* distinct director ids of the titles of the group, however many exploded
\* rows carry each id, and n_directors has a row for exactly the groups
\* that have a title with directors.
GroupDirectorIds(k) ==
    UNION {Range(Split(Val(p[2].directors))) :
              p \in {q \in CrewTitles :
                        /\ q[1].startYear = k[1]
                        /\ Val(k[2]) \in Range(Split(Val(q[1].genres)))}}

C7_NumDirectorsCountsDistinctIds ==
    pc = "crew_done" =>
        /\ \A g \in Range(n_directors) :
               /\ g.value = Cardinality(GroupDirectorIds(KeyOf(g)))
               /\ g.value >= 1
        /\ \A p \in CrewTitles :
               \A genre \in Range(Split(Val(p[1].genres))) :
                   Cardinality({i \in 1..Len(n_directors) :
                       KeyOf(n_directors[i])
                           = <<p[1].startYear, Some(genre)>>}) = 1
        /\ Len(n_directors)
               = Cardinality({KeyOf(g) : g \in Range(n_directors)})

C7_Witness ==
    /\ pc = "crew_done"
    /\ \E g \in Range(n_directors) :
           /\ g.value = 2
           /\ Cardinality({i \in 1..Len(df) : KeyOf(df[i]) = KeyOf(g)}) = 4

\* C8: before grouping, each title with genres and directors present gives
\* (number of genres) x (number of director ids) rows, one per (genre,
\* director) pair, each with the title's startYear and whole writers
\* string; the other titles give no row.
ExpectedRows(p) ==
    {[startYear |-> p[1].startYear, genres |-> Some(g),
      directors |-> Some(d), writers |-> p[2].writers] :
        g \in Range(Split(Val(p[1].genres))),
        d \in Range(Split(Val(p[2].directors)))}

CrossSize(p) == Pieces(Val(p[1].genres)) * Pieces(Val(p[2].directors))

RECURSIVE TotalCrossSize(_)
TotalCrossSize(S) ==
    IF S = {} THEN 0
    ELSE LET p == CHOOSE q \in S : TRUE
         IN  CrossSize(p) + TotalCrossSize(S \ {p})

C8_ExplodeIsCrossProduct ==
    pc \in {"crew_done", "raised KeyError"} =>
        /\ Len(df) = TotalCrossSize(CrewTitles)
        /\ \A p \in CrewTitles :
               /\ Cardinality(ExpectedRows(p)) = CrossSize(p)
               /\ ExpectedRows(p) \subseteq Range(df)
        /\ \A r \in Range(df) : \E p \in CrewTitles : r \in ExpectedRows(p)

C8_Witness ==
    /\ pc = "crew_done"
    /\ \E p \in CrewTitles :
           /\ p[1].genres = Some(<<"D", ",", "C">>)
           /\ p[2].directors = Some(<<"1", ",", "2">>)
           /\ p[2].writers = Some(<<"7", ",", "8">>)
    /\ Cardinality(CrewTitles) = 1
    /\ Len(clean_title_basics) = 2
    /\ Len(df) = 4

\* C3: in the final output and in the written file, numDirectors is never
\* null, and it is the integer 0 in the row of a group that has no row in
\* the crew statistics.
Written == IF pc = "done" THEN sink ELSE output

C3_MissingNumDirectorsIsZero ==
    pc \in {"output_ready", "done"} =>
        \A r \in Range(Written) :
            /\ r.numDirectors # Null
            /\ (\A g \in Range(n_directors) : KeyOf(g) # KeyOf(r))
                   => r.numDirectors = Some(0)

C3_Witness ==
    /\ pc = "done"
    /\ \E r \in Range(sink) :
           /\ \A g \in Range(n_directors) : KeyOf(g) # KeyOf(r)
           /\ r.numDirectors = Some(0)
    /\ \E r \in Range(sink) : r.numDirectors = Some(2)

\* C5 as stated: when a director id of the crew row of a clean title has no
\* entry in the lookup, get_crew_data_by_group does not return (the
\* KeyError leaves run_pipeline); here for the titles with genres alone.
C5_AnyMissingDirectorIsFatal ==
    pc = "crew_done" =>
        \A p \in CrewTitles :
            Range(Split(Val(p[2].directors)))
                \subseteq DOMAIN director_id2name_dict

\* C5 amended: when a director id that is among the most frequent ids of
\* some group of the exploded crew frame has no entry in the lookup, the
\* KeyError is raised in get_crew_data_by_group and leaves run_pipeline,
\* and the file is not written in that run; when no such id is missing
\* the call returns, whatever other director ids have no entry.
ModeMissing ==
    \E k \in {KeyOf(r) : r \in Range(df)} :
        \E d \in MostFrequent(df, k) : d \notin DOMAIN director_id2name_dict

AfterCrewAggregation ==
    pc \in {"raised KeyError", "crew_done", "crew_released", "output_ready",
            "done"}

C5_MissingTopDirectorIsFatal ==
    AfterCrewAggregation =>
        /\ ModeMissing => (pc = "raised KeyError" /\ writes = 0 /\ sink = <<>>)
        /\ ~ModeMissing => pc # "raised KeyError"

C5_Witness ==
    /\ pc = "raised KeyError"
    /\ ModeMissing
    /\ writes = 0

\* C9: in every row of the final output and of the written file numWriters
\* equals the row's numVotes, whatever the number of distinct writers
\* strings computed for the group.
C9_NumWritersIsNumVotes ==
    pc \in {"output_ready", "done"} =>
        \A r \in Range(Written) :
            /\ r.numWriters = r.numVotes
            /\ r.numWriters # Null

C9_Witness ==
    /\ pc = "done"
    /\ \E r \in Range(sink) :
           \E g \in Range(n_writers) :
               /\ KeyOf(g) = KeyOf(r)
               /\ g.value = 1
               /\ r.numWriters = Some(20)

\* C10: the stages run in the order load names, build lookup, load
\* title-basics, clean, load ratings, join, aggregate, load crew, crew
\* aggregation, merge, write; a raw table is bound only from its load
\* until its transform has returned, so at most one is bound at a time;
\* the clean titles stay bound from cleaning on; the file is written at
\* most once and only after all other stages.
StageOrder ==
    <<"load names", "build lookup", "load title-basics", "clean",
      "load ratings", "join", "aggregate", "load crew", "crew aggregation",
      "merge", "write">>

RawTables ==
    {"name_basics_df", "title_basics_df", "title_ratings_df", "title_crew_df"}

LastStage == IF steps = <<>> THEN "" ELSE steps[Len(steps)]

C10_StagesInOrderOneRawTableLive ==
    /\ Len(steps) <= Len(StageOrder)
    /\ steps = SubSeq(StageOrder, 1, Len(steps))
    /\ Cardinality(live \cap RawTables) <= 1
    /\ "name_basics_df" \in live
           => (LastStage = "load names" \/ pc = "lookup_built")
    /\ "title_basics_df" \in live
           => (LastStage = "load title-basics" \/ pc = "basics_clean")
    /\ "title_ratings_df" \in live
           => (LastStage = "load ratings" \/ pc = "ratings_joined")
    /\ "title_crew_df" \in live
           => (LastStage = "load crew" \/ pc = "crew_done")
    /\ (\E i \in 1..Len(steps) : steps[i] = "clean")
           => "clean_title_basics" \in live
    /\ writes <= 1
    /\ writes = 1 => steps = StageOrder

C10_Witness ==
    /\ pc = "done"
    /\ writes = 1
    /\ steps = StageOrder
    /\ live \cap RawTables = {}

====
